---- MODULE Spec2Model ----
(***************************************************************************)
(* Model of the pomodoro interval engine (pomodoro/interval.go):           *)
(*   - tick(): the select loop over ticker.C, expire and ctx.Done();       *)
(*   - nextCategory(): the category rotation;                              *)
(*   - the Repository the two read and write through.                      *)
(* Durations are counted in whole seconds (time.Second = 1).               *)
(***************************************************************************)
EXTENDS Integers, Sequences, FiniteSets, TLC

\* ------------------------------------------------------------------ bounds
MaxPlanned == 3   \* largest PlannedDuration (seconds) of the stored interval
MaxFires   == 3   \* ticker periods that elapse within one tick() invocation
MaxRuns    == 2   \* tick() invocations on the same id
MaxSpin    == 2   \* times one invocation services the ctx.Done() case
MaxHist    == 17  \* intervals recorded in the repository history
MaxArb     == 4   \* history prefix recorded by callers other than nextCategory
MaxArg     == 2   \* NewConfig() arguments range over -MaxArg..MaxArg minutes

\* --------------------------------------------------------------- constants
CategoryPomodoro   == "Pomodoro"
CategoryShortBreak == "ShortBreak"
CategoryLongBreak  == "LongBreak"

StateNotStarted == 0
StateDone       == 1
StateRunning    == 2
StatePaused     == 3
StateCancelled  == 4

Second == 1

ErrNoIntervals == "ErrNoIntervals"
ErrInvalidID   == "ErrInvalidID"
\* a storage failure of the Repository implementation (any other error value)
ErrStorage     == "ErrStorage"
NoErr          == "nil"

\* error values a failing ByID / Update can return
StoreErrs == {ErrInvalidID, ErrStorage}

VARIABLES
  store,        \* the Interval record the Repository holds for id
  pc,           \* position of tick(): "idle", "loop" (at the select), "returned"
  ret,          \* the error tick() returned ("none" while it runs)
  tickerActive, \* the time.Ticker of the invocation has not been stopped
  tickerC,      \* ticks buffered in ticker.C (capacity 1)
  expireC,      \* values buffered in the time.After channel (capacity 1)
  armed,        \* the time.After timer has not fired yet
  expireAt,     \* PlannedDuration - ActualDuration computed at entry
  elapsed,      \* ticker periods elapsed since the ticker was created
  cancelled,    \* ctx.Done() is closed
  spins,        \* times the ctx.Done() case was serviced in this invocation
  runs,         \* tick() invocations so far
  log,          \* what this invocation did, in order (reads, writes, callbacks)
  hist,         \* categories of the recorded intervals, oldest first
  pure,         \* hist was recorded from nextCategory() results only
  sel,          \* the last nextCategory() call: its lookups and its result
  config        \* the last NewConfig() call: its arguments and its result

vars     == <<store, pc, ret, tickerActive, tickerC, expireC, armed, expireAt,
              elapsed, cancelled, spins, runs, log, hist, pure, sel, config>>

\* ---------------------------------------------------------------- Interval
Interval(id, planned, actual, cat, st) ==
  [ID |-> id, StartTime |-> 0, PlannedDuration |-> planned,
   ActualDuration |-> actual, Category |-> cat, State |-> st]

\* entries of log
Ev(e, i)      == [ev |-> e, st |-> i.State, ad |-> i.ActualDuration, err |-> NoErr]
FailEv(e, er) == [ev |-> e, st |-> 0 - 1, ad |-> 0 - 1, err |-> er]

\* ------------------------------------------------------------------ tick()
\* expire := time.After(interval.PlannedDuration - interval.ActualDuration)
ExpireAfter(i) == i.PlannedDuration - i.ActualDuration

\* case <-ticker.C: interval.ActualDuration += time.Second
TickStep_Minus(i) == [i EXCEPT !.ActualDuration = @ - Second]
TickStep(i) == [i EXCEPT !.ActualDuration = @ + Second]

\* case <-expire: interval.State = StateDone
ExpireStep_Fresh(i) ==
  [ID |-> i.ID, StartTime |-> 0, PlannedDuration |-> 0,
   ActualDuration |-> i.ActualDuration, Category |-> "", State |-> StateDone]
ExpireStep(i) == [i EXCEPT !.State = StateDone]

\* case <-ctx.Done(): interval.State = StateCancelled (on the branch's own copy)
CancelStep(i) == [i EXCEPT !.State = StateCancelled]

\* tick() is entered: NewTicker, the first ByID, time.After, start(interval).
\* The code has no check of the stored State.
Invoke_StartFirst ==
  /\ pc \in {"idle", "returned"}
  /\ runs < MaxRuns
  /\ runs' = runs + 1
  /\ elapsed' = 0 /\ tickerC' = 0 /\ expireC' = 0
  /\ cancelled' = FALSE /\ spins' = 0
  /\ \E e \in StoreErrs \cup {NoErr} :
       IF e # NoErr
       THEN /\ pc' = "returned" /\ ret' = e
            /\ tickerActive' = FALSE /\ armed' = FALSE /\ expireAt' = 0
            /\ log' = <<Ev("start", store), FailEv("byidfail", e)>>
       ELSE /\ pc' = "loop" /\ ret' = "none"
            /\ tickerActive' = TRUE /\ armed' = TRUE
            /\ expireAt' = ExpireAfter(store)
            /\ log' = <<Ev("start", store), Ev("byid", store)>>
  /\ UNCHANGED <<store, hist, pure, sel, config>>
Invoke ==
  /\ pc \in {"idle", "returned"}
  /\ runs < MaxRuns
  /\ runs' = runs + 1
  /\ elapsed' = 0 /\ tickerC' = 0 /\ expireC' = 0
  /\ cancelled' = FALSE /\ spins' = 0
  /\ \E e \in StoreErrs \cup {NoErr} :
       IF e # NoErr
       THEN /\ pc' = "returned" /\ ret' = e
            /\ tickerActive' = FALSE /\ armed' = FALSE /\ expireAt' = 0
            /\ log' = <<FailEv("byidfail", e)>>
       ELSE /\ pc' = "loop" /\ ret' = "none"
            /\ tickerActive' = TRUE /\ armed' = TRUE
            /\ expireAt' = ExpireAfter(store)
            /\ log' = <<Ev("byid", store), Ev("start", store)>>
  /\ UNCHANGED <<store, hist, pure, sel, config>>

\* a ticker period elapses: the runtime sends on ticker.C and drops the tick
\* when the buffer is full.  A due time.After timer fires before the period
\* that follows its deadline.
TickerFire ==
  /\ tickerActive
  /\ elapsed < MaxFires
  /\ ~(armed /\ elapsed >= expireAt)
  /\ elapsed' = elapsed + 1
  /\ tickerC' = 1
  /\ UNCHANGED <<store, pc, ret, tickerActive, expireC, armed, expireAt,
                 cancelled, spins, runs, log, hist, pure, sel, config>>

\* the time.After timer fires once its duration has elapsed
ExpireFire ==
  /\ armed
  /\ elapsed >= expireAt
  /\ armed' = FALSE
  /\ expireC' = 1
  /\ UNCHANGED <<store, pc, ret, tickerActive, tickerC, expireAt, elapsed,
                 cancelled, spins, runs, log, hist, pure, sel, config>>

\* the caller cancels the context of the invocation
Cancel ==
  /\ pc = "loop"
  /\ ~cancelled
  /\ cancelled' = TRUE
  /\ UNCHANGED <<store, pc, ret, tickerActive, tickerC, expireC, armed,
                 expireAt, elapsed, spins, runs, log, hist, pure, sel, config>>

\* return err / return nil, with the deferred ticker.Stop()
Return_Wrapped(e, entries) ==
  /\ pc' = "returned"
  /\ ret' = IF e = NoErr THEN NoErr ELSE ErrStorage
  /\ tickerActive' = FALSE
  /\ armed' = FALSE
  /\ log' = log \o entries
Return_NoStop(e, entries) ==
  /\ pc' = "returned"
  /\ ret' = e
  /\ armed' = FALSE
  /\ log' = log \o entries
  /\ UNCHANGED tickerActive
Return(e, entries) ==
  /\ pc' = "returned"
  /\ ret' = e
  /\ tickerActive' = FALSE
  /\ armed' = FALSE
  /\ log' = log \o entries

\* case <-ticker.C
CaseTicker ==
  /\ pc = "loop"
  /\ tickerC = 1
  /\ tickerC' = 0
  /\ \/ \E e \in StoreErrs :                     \* ByID fails
          /\ Return(e, <<FailEv("byidfail", e)>>)
          /\ UNCHANGED store
     \/ /\ store.State = StatePaused             \* return nil
        /\ Return(NoErr, <<Ev("byid", store)>>)
        /\ UNCHANGED store
     \/ /\ store.State # StatePaused
        /\ \E e \in StoreErrs :                  \* Update fails
             /\ Return(e, <<Ev("byid", store), FailEv("updatefail", e)>>)
             /\ UNCHANGED store
     \/ /\ store.State # StatePaused
        /\ store' = TickStep(store)
        /\ log' = log \o <<Ev("byid", store), Ev("update", TickStep(store)),
                           Ev("periodic", TickStep(store))>>
        /\ UNCHANGED <<pc, ret, tickerActive, armed>>
  /\ UNCHANGED <<expireC, expireAt, elapsed, cancelled, spins, runs,
                 hist, pure, sel, config>>

\* case <-expire
CaseExpire_PersistFirst ==
  /\ pc = "loop"
  /\ expireC = 1
  /\ expireC' = 0
  /\ \/ \E e \in StoreErrs :
          /\ Return(e, <<FailEv("byidfail", e)>>)
          /\ UNCHANGED store
     \/ \E e \in StoreErrs :
          /\ Return(e, <<Ev("byid", store), FailEv("updatefail", e)>>)
          /\ UNCHANGED store
     \/ /\ store' = ExpireStep(store)
        /\ Return(NoErr, <<Ev("byid", store), Ev("update", ExpireStep(store)),
                           Ev("end", ExpireStep(store))>>)
  /\ UNCHANGED <<tickerC, expireAt, elapsed, cancelled, spins, runs,
                 hist, pure, sel, config>>
CaseExpire_NoReturn ==
  /\ pc = "loop"
  /\ expireC = 1
  /\ expireC' = 0
  /\ \/ \E e \in StoreErrs :
          /\ Return(e, <<FailEv("byidfail", e)>>)
          /\ UNCHANGED store
     \/ \E e \in StoreErrs :
          /\ Return(e, <<Ev("byid", store), Ev("end", ExpireStep(store)),
                         FailEv("updatefail", e)>>)
          /\ UNCHANGED store
     \/ /\ store' = ExpireStep(store)
        /\ log' = log \o <<Ev("byid", store), Ev("end", ExpireStep(store)),
                           Ev("update", ExpireStep(store))>>
        /\ UNCHANGED <<pc, ret, tickerActive, armed>>
  /\ UNCHANGED <<tickerC, expireAt, elapsed, cancelled, spins, runs,
                 hist, pure, sel, config>>
CaseExpire ==
  /\ pc = "loop"
  /\ expireC = 1
  /\ expireC' = 0
  /\ \/ \E e \in StoreErrs :                     \* ByID fails
          /\ Return(e, <<FailEv("byidfail", e)>>)
          /\ UNCHANGED store
     \/ \E e \in StoreErrs :                     \* end(interval), Update fails
          /\ Return(e, <<Ev("byid", store), Ev("end", ExpireStep(store)),
                         FailEv("updatefail", e)>>)
          /\ UNCHANGED store
     \/ /\ store' = ExpireStep(store)
        /\ Return(NoErr, <<Ev("byid", store), Ev("end", ExpireStep(store)),
                           Ev("update", ExpireStep(store))>>)
  /\ UNCHANGED <<tickerC, expireAt, elapsed, cancelled, spins, runs,
                 hist, pure, sel, config>>

\* case <-ctx.Done(): the branch has no return and no Update, the for loop
\* goes back to the select
CaseDone_Persist ==
  /\ pc = "loop"
  /\ cancelled
  /\ spins < MaxSpin
  /\ spins' = spins + 1
  /\ \/ \E e \in StoreErrs :
          /\ Return(e, <<FailEv("byidfail", e)>>)
          /\ UNCHANGED store
     \/ /\ store' = CancelStep(store)
        /\ Return(NoErr, <<Ev("byid", store), Ev("cancel", CancelStep(store)),
                           Ev("update", CancelStep(store))>>)
  /\ UNCHANGED <<tickerC, expireC, expireAt, elapsed, cancelled, runs,
                 hist, pure, sel, config>>
CaseDone ==
  /\ pc = "loop"
  /\ cancelled
  /\ spins < MaxSpin
  /\ spins' = spins + 1
  /\ \/ \E e \in StoreErrs :                     \* ByID fails
          /\ Return(e, <<FailEv("byidfail", e)>>)
     \/ /\ log' = log \o <<Ev("byid", store), Ev("cancel", CancelStep(store))>>
        /\ UNCHANGED <<pc, ret, tickerActive, armed>>
  /\ UNCHANGED <<store, tickerC, expireC, expireAt, elapsed, cancelled, runs,
                 hist, pure, sel, config>>

\* an external actor pauses the running interval while tick() waits at the select
Pause ==
  /\ pc = "loop"
  /\ store.State = StateRunning
  /\ store' = [store EXCEPT !.State = StatePaused]
  /\ log' = log \o <<Ev("paused", store')>>
  /\ UNCHANGED <<pc, ret, tickerActive, tickerC, expireC, armed, expireAt,
                 elapsed, cancelled, spins, runs, hist, pure, sel, config>>

\* the external actor resumes a paused interval before a new invocation
Resume ==
  /\ pc = "returned"
  /\ store.State = StatePaused
  /\ store' = [store EXCEPT !.State = StateRunning]
  /\ UNCHANGED <<pc, ret, tickerActive, tickerC, expireC, armed, expireAt,
                 elapsed, cancelled, spins, runs, log, hist, pure, sel, config>>

TickInit ==
  /\ \E p \in 1..MaxPlanned :
       store = Interval(1, p, 0, CategoryPomodoro, StateRunning)
  /\ pc = "idle" /\ ret = "none"
  /\ tickerActive = FALSE /\ tickerC = 0 /\ expireC = 0 /\ armed = FALSE
  /\ expireAt = 0 /\ elapsed = 0 /\ cancelled = FALSE /\ spins = 0
  /\ runs = 0 /\ log = <<>>

CatIdle == hist = <<>> /\ pure = TRUE /\ sel = [called |-> FALSE]

ConfigIdle == config = [called |-> FALSE]

Init == TickInit /\ CatIdle /\ ConfigIdle

Next ==
  \/ Invoke
  \/ TickerFire
  \/ ExpireFire
  \/ Cancel
  \/ CaseTicker
  \/ CaseExpire
  \/ CaseDone
  \/ Pause
  \/ Resume

Spec == Init /\ [][Next]_vars

\* the timers fire (time passes) and the select does not starve the expire case:
\* Go's select chooses uniformly at random among the ready cases, and the value
\* buffered in the time.After channel stays there until it is received
FairSpec ==
  /\ Init /\ [][Next]_vars
  /\ WF_vars(TickerFire)
  /\ WF_vars(ExpireFire)
  /\ WF_vars(CaseExpire)

\* ------------------------------------------------------------- Repository
IsBreak(c) == c \in {CategoryShortBreak, CategoryLongBreak}

\* Repository.Last(): the most recent interval, ErrNoIntervals when none exist
RepoLast(h) ==
  IF h = <<>>
  THEN [err |-> ErrNoIntervals, cat |-> ""]
  ELSE [err |-> NoErr, cat |-> h[Len(h)]]

\* Repository.Breaks(n): up to n most recent break intervals, most recent first
RECURSIVE RepoBreaks(_, _)
RepoBreaks(h, n) ==
  IF h = <<>> \/ n = 0
  THEN <<>>
  ELSE IF IsBreak(h[Len(h)])
       THEN <<h[Len(h)]>> \o RepoBreaks(SubSeq(h, 1, Len(h) - 1), n - 1)
       ELSE RepoBreaks(SubSeq(h, 1, Len(h) - 1), n)

\* ---------------------------------------------------------- nextCategory()
\* lastInterval.Category == CategoryLongBreak || ... == CategoryShortBreak
LastIsBreak_OnlyLong(c) == c = CategoryLongBreak
LastIsBreak(c) == c = CategoryLongBreak \/ c = CategoryShortBreak

\* len(lastBreaks) < 3
TooFewBreaks_Two(bs) == Len(bs) < 2
TooFewBreaks(bs) == Len(bs) < 3

\* for _, i := range lastBreaks { if i.Category == CategoryLongBreak ... }
HasLongBreak_FirstOnly(bs) == bs[1] = CategoryLongBreak
HasLongBreak(bs) == \E k \in 1..Len(bs) : bs[k] = CategoryLongBreak

\* err != nil && err == ErrNoIntervals (after r.Last())
IsNoIntervals_Never(err) == FALSE
IsNoIntervals(err) == err # NoErr /\ err = ErrNoIntervals

\* err != nil (after r.Breaks(3))
BreaksFailed_ButNoIntervals(err) == err # NoErr /\ err # ErrNoIntervals
BreaksFailed(err) == err # NoErr

\* last and breaks are what r.Last() and r.Breaks(3) answer; nLast and nBreaks
\* count the calls of r.Last and r.Breaks the path makes
nextCategory(last, breaks) ==
  IF IsNoIntervals(last.err)
  THEN [cat |-> CategoryPomodoro, err |-> NoErr, nLast |-> 1, nBreaks |-> 0]
  ELSE IF last.err # NoErr
  THEN [cat |-> "", err |-> last.err, nLast |-> 1, nBreaks |-> 0]
  ELSE IF LastIsBreak(last.cat)
  THEN [cat |-> CategoryPomodoro, err |-> NoErr, nLast |-> 1, nBreaks |-> 0]
  ELSE IF BreaksFailed(breaks.err)
  THEN [cat |-> "", err |-> breaks.err, nLast |-> 1, nBreaks |-> 1]
  ELSE IF TooFewBreaks(breaks.val)
  THEN [cat |-> CategoryShortBreak, err |-> breaks.err, nLast |-> 1, nBreaks |-> 1]
  ELSE IF HasLongBreak(breaks.val)
  THEN [cat |-> CategoryShortBreak, err |-> NoErr, nLast |-> 1, nBreaks |-> 1]
  ELSE [cat |-> CategoryLongBreak, err |-> NoErr, nLast |-> 1, nBreaks |-> 1]

\* the answers of the repository, with the failures le (of Last) and be (of
\* Breaks) injected; NoErr injects none
LastAnswer(le)   == IF le = NoErr THEN RepoLast(hist) ELSE [err |-> le, cat |-> ""]
BreaksAnswer(be) == IF be = NoErr
                    THEN [err |-> NoErr, val |-> RepoBreaks(hist, 3)]
                    ELSE [err |-> be, val |-> <<>>]

Called(last, breaks) ==
  [called |-> TRUE, last |-> last, breaks |-> breaks,
   out |-> nextCategory(last, breaks)]

\* a caller asks for the next category and records an interval of that category
NewInterval ==
  /\ Len(hist) < MaxHist
  /\ sel' = Called(LastAnswer(NoErr), BreaksAnswer(NoErr))
  /\ sel'.out.err = NoErr
  /\ hist' = Append(hist, sel'.out.cat)
  /\ UNCHANGED <<pure, store, pc, ret, tickerActive, tickerC, expireC, armed,
                 expireAt, elapsed, cancelled, spins, runs, log, config>>

\* nextCategory() is called while the repository lookups may fail
Select ==
  /\ \E le \in StoreErrs \cup {NoErr} :
       \E be \in StoreErrs \cup {NoErr, ErrNoIntervals} :
         sel' = Called(LastAnswer(le), BreaksAnswer(be))
  /\ UNCHANGED <<hist, pure, store, pc, ret, tickerActive, tickerC, expireC,
                 armed, expireAt, elapsed, cancelled, spins, runs, log, config>>

\* an interval of any category is recorded without asking nextCategory()
CreateOther ==
  /\ Len(hist) < MaxArb
  /\ \E c \in {CategoryPomodoro, CategoryShortBreak, CategoryLongBreak} :
       hist' = Append(hist, c)
  /\ pure' = FALSE
  /\ UNCHANGED <<sel, store, pc, ret, tickerActive, tickerC, expireC, armed,
                 expireAt, elapsed, cancelled, spins, runs, log, config>>

CatNext ==
  \/ NewInterval
  \/ Select
  \/ CreateOther

SpecCategory == Init /\ [][CatNext]_vars

\* ------------------------------------------------------------- NewConfig()
Minute == 60 * Second

DefaultPomodoro   == 25 * Minute
DefaultShortBreak == 5 * Minute
DefaultLongBreak  == 15 * Minute

\* if pomodoro > 0 { ... } if shortBreak > 0 { ... } if longBreak > 0 { ... }
NewConfig_CopyPaste(pomodoro, shortBreak, longBreak) ==
  [PomodoroDuration   |-> IF pomodoro > 0 THEN pomodoro ELSE DefaultPomodoro,
   ShortBreakDuration |-> IF pomodoro > 0 THEN shortBreak ELSE DefaultShortBreak,
   LongBreakDuration  |-> IF longBreak > 0 THEN longBreak ELSE DefaultLongBreak]
NewConfig(pomodoro, shortBreak, longBreak) ==
  [PomodoroDuration   |-> IF pomodoro > 0 THEN pomodoro ELSE DefaultPomodoro,
   ShortBreakDuration |-> IF shortBreak > 0 THEN shortBreak ELSE DefaultShortBreak,
   LongBreakDuration  |-> IF longBreak > 0 THEN longBreak ELSE DefaultLongBreak]

\* the durations a caller passes: negative, zero and positive
DurArgs == {m * Minute : m \in (0 - MaxArg)..MaxArg}

\* NewConfig(repo, pomodoro, shortBreak, longBreak) is called
CallNewConfig ==
  /\ \E p \in DurArgs : \E sb \in DurArgs : \E lb \in DurArgs :
       config' = [called |-> TRUE, pomodoro |-> p, shortBreak |-> sb,
                  longBreak |-> lb, out |-> NewConfig(p, sb, lb)]
  /\ UNCHANGED <<store, pc, ret, tickerActive, tickerC, expireC, armed,
                 expireAt, elapsed, cancelled, spins, runs, log, hist, pure,
                 sel>>

ConfigNext == CallNewConfig

SpecConfig == Init /\ [][ConfigNext]_vars

\* ------------------------------------------------------ reading the log
Callbacks(l)  == SelectSeq(l, LAMBDA x : x.ev \in {"start", "periodic", "end"})
Reads(l)      == SelectSeq(l, LAMBDA x : x.ev = "byid")
Failures(l)   == SelectSeq(l, LAMBDA x : x.ev \in {"byidfail", "updatefail"})
Positions(l, e) == {k \in 1..Len(l) : l[k].ev = e}
Has(l, e)     == Positions(l, e) # {}
Min(S)        == CHOOSE m \in S : \A n \in S : m <= n
\* what a step appended to the log (an Invoke starts the log afresh)
NewEntries(l, l2) ==
  IF Len(l2) >= Len(l) /\ SubSeq(l2, 1, Len(l)) = l
  THEN SubSeq(l2, Len(l) + 1, Len(l2))
  ELSE l2
\* the invocation neither failed, nor was paused, nor was cancelled
Uninterrupted == /\ Failures(log) = <<>>
                 /\ ~Has(log, "paused")
                 /\ ~cancelled
                 /\ (\A k \in 1..Len(log) : log[k].st # StatePaused)

\* every tick the ticker sent was serviced or is still buffered in ticker.C
NoTickDropped ==
  elapsed = Cardinality(Positions(log, "periodic")) + tickerC

\* ------------------------------------------------------------------ claims

\* C1: once the cancellation has been serviced (before the expiry was), the
\* stored state is Cancelled and the invocation applies no further tick (no
\* Update, no periodic callback) and never calls the end callback.
C1_CancelHalts ==
  Has(log, "cancel") =>
    /\ store.State = StateCancelled
    /\ \A k \in 1..Len(log) :
         k > Min(Positions(log, "cancel")) =>
           log[k].ev \notin {"update", "periodic", "end"}

\* C2: an uninterrupted first run of an interval with PlannedDuration = 3s and
\* ActualDuration = 0s, in which no tick was dropped (every tick was serviced
\* before the next one fired), calls start, then periodic exactly twice, then
\* end once with State = Done and ActualDuration = PlannedDuration.
C2_ThreeSeconds ==
  ( /\ pc = "returned" /\ runs = 1
    /\ store.PlannedDuration = 3 * Second
    /\ Uninterrupted
    /\ NoTickDropped ) =>
      LET cb == Callbacks(log) IN
        /\ Len(cb) = 4
        /\ cb[1].ev = "start" /\ cb[2].ev = "periodic" /\ cb[3].ev = "periodic"
        /\ cb[4].ev = "end" /\ cb[4].st = StateDone
        /\ cb[4].ad = store.PlannedDuration

\* C3: once a pause has been stored between two ticks (no cancellation, no
\* storage error), the next event the loop services makes tick() return nil,
\* and the run makes no further Update and calls neither periodic nor end.
C3_PauseStops ==
  (Has(log, "paused") /\ Failures(log) = <<>> /\ ~cancelled) =>
    LET p == Min(Positions(log, "paused")) IN
      /\ \A k \in 1..Len(log) :
           k > p => log[k].ev \notin {"update", "periodic", "end"}
      /\ Len(log) > p => (pc = "returned" /\ ret = NoErr)

\* C4: the stored ActualDuration never exceeds PlannedDuration.
C4_ActualWithinPlanned == store.ActualDuration <= store.PlannedDuration

\* C5: once the stored state is Done or Cancelled, no step changes the stored
\* record or adds a periodic or end callback.
C5_TerminalImmutable ==
  [][ store.State \in {StateDone, StateCancelled} =>
        /\ store' = store
        /\ \A k \in 1..Len(NewEntries(log, log')) :
             NewEntries(log, log')[k].ev \notin {"periodic", "end"} ]_vars

\* C6: a failing ByID or Update is the last thing its invocation does: tick()
\* has returned exactly that error, nothing (no write, no callback) follows the
\* failure in the log, and the store still holds the last successful write.
C6_ErrorAborts ==
  /\ \A k \in 1..Len(log) :
       log[k].ev \in {"byidfail", "updatefail"} =>
         /\ k = Len(log)
         /\ pc = "returned"
         /\ ret = log[k].err
  /\ Has(log, "update") =>
       LET u == log[CHOOSE k \in Positions(log, "update") :
                      \A j \in Positions(log, "update") : j <= k] IN
         /\ store.ActualDuration = u.ad
         /\ store.State \in {u.st, StatePaused}
C6_Witness ==
  /\ pc = "returned"
  /\ Len(log) > 0
  /\ log[Len(log)].ev = "updatefail"
  /\ ret = ErrInvalidID
  /\ Has(log, "update")

\* C7: the ActualDuration values the successive ByID calls of an invocation
\* return never decrease.
C7_ReadsMonotonic ==
  LET r == Reads(log) IN
    \A k \in 1..Len(r) : k > 1 => r[k - 1].ad <= r[k].ad
C7_Witness ==
  LET r == Reads(log) IN
    /\ Len(r) >= 4
    /\ r[1].ad = r[2].ad /\ r[2].ad < r[3].ad /\ r[3].ad < r[4].ad

\* C8: a history recorded from nextCategory() results alone, starting empty,
\* follows the cycle Pomodoro, ShortBreak, Pomodoro, ShortBreak, Pomodoro,
\* ShortBreak, Pomodoro, LongBreak: odd positions are Pomodoros, a LongBreak
\* sits at every eighth position and nowhere else.
Cycle == <<CategoryPomodoro, CategoryShortBreak, CategoryPomodoro,
           CategoryShortBreak, CategoryPomodoro, CategoryShortBreak,
           CategoryPomodoro, CategoryLongBreak>>
C8_Rotation ==
  pure =>
    \A k \in 1..Len(hist) :
      /\ hist[k] = Cycle[((k - 1) % 8) + 1]
      /\ (k % 2 = 1) => hist[k] = CategoryPomodoro
      /\ (hist[k] = CategoryLongBreak) <=> (k % 8 = 0)
C8_Witness == pure /\ Len(hist) >= 16 /\ hist[16] = CategoryLongBreak

\* C9: with a Pomodoro as the last interval and a successful Breaks(3),
\* nextCategory() returns LongBreak exactly when Breaks(3) gave three breaks
\* none of which is a LongBreak, ShortBreak otherwise, and a nil error.
C9_AfterPomodoro ==
  ( /\ sel.called
    /\ sel.last.err = NoErr /\ sel.last.cat = CategoryPomodoro
    /\ sel.breaks.err = NoErr ) =>
      LET bs   == sel.breaks.val
          due  == Len(bs) = 3 /\ \A k \in 1..3 : bs[k] # CategoryLongBreak IN
        /\ sel.out.err = NoErr
        /\ sel.out.nBreaks = 1
        /\ (sel.out.cat = CategoryLongBreak) <=> due
        /\ ~due => sel.out.cat = CategoryShortBreak
C9_Witness ==
  /\ sel.called
  /\ sel.last.err = NoErr /\ sel.last.cat = CategoryPomodoro
  /\ sel.breaks.err = NoErr
  /\ Len(sel.breaks.val) = 3
  /\ sel.breaks.val[1] # CategoryLongBreak
  /\ sel.breaks.val[3] = CategoryLongBreak
  /\ sel.out.cat = CategoryShortBreak

\* C10: with a ShortBreak or a LongBreak as the last interval, nextCategory()
\* returns Pomodoro and a nil error without calling Breaks(), whatever Breaks()
\* would have answered.
C10_AfterBreak ==
  ( /\ sel.called
    /\ sel.last.err = NoErr
    /\ sel.last.cat \in {CategoryShortBreak, CategoryLongBreak} ) =>
      /\ sel.out.cat = CategoryPomodoro
      /\ sel.out.err = NoErr
      /\ sel.out.nBreaks = 0
C10_Witness ==
  /\ sel.called
  /\ sel.last.err = NoErr
  /\ sel.last.cat = CategoryShortBreak
  /\ sel.breaks.err = ErrStorage
  /\ sel.out.cat = CategoryPomodoro

\* C11: when Last() fails with ErrNoIntervals (no interval recorded),
\* nextCategory() returns Pomodoro and a nil error, without calling Breaks().
C11_FirstInterval ==
  (sel.called /\ sel.last.err = ErrNoIntervals) =>
    /\ sel.out.cat = CategoryPomodoro
    /\ sel.out.err = NoErr
    /\ sel.out.nBreaks = 0
C11_Witness ==
  /\ sel.called
  /\ hist = <<>>
  /\ sel.last.err = ErrNoIntervals
  /\ sel.breaks.err = ErrInvalidID
  /\ sel.out.cat = CategoryPomodoro

\* C12: an error of Last() other than ErrNoIntervals, and any error of
\* Breaks(3) (ErrNoIntervals included), is returned unchanged with an empty
\* category; each lookup is made at most once (no retry).
C12_ErrorsPropagate ==
  sel.called =>
    /\ sel.last.err \notin {NoErr, ErrNoIntervals} =>
         /\ sel.out.err = sel.last.err
         /\ sel.out.cat = ""
         /\ sel.out.nLast = 1 /\ sel.out.nBreaks = 0
    /\ ( /\ sel.last.err = NoErr /\ sel.last.cat = CategoryPomodoro
         /\ sel.breaks.err # NoErr ) =>
         /\ sel.out.err = sel.breaks.err
         /\ sel.out.cat = ""
         /\ sel.out.nLast = 1 /\ sel.out.nBreaks = 1
C12_Witness ==
  /\ sel.called
  /\ sel.last.err = NoErr /\ sel.last.cat = CategoryPomodoro
  /\ sel.breaks.err = ErrNoIntervals
  /\ sel.out.err = ErrNoIntervals
  /\ sel.out.cat = ""

\* C13: no step changes ID, StartTime, PlannedDuration or Category of the
\* stored record; the Update of the tick branch leaves State as it was read
\* and the Update of the expiry branch leaves ActualDuration as it was read.
C13_FrameOfUpdate ==
  [][ /\ store'.ID = store.ID
      /\ store'.StartTime = store.StartTime
      /\ store'.PlannedDuration = store.PlannedDuration
      /\ store'.Category = store.Category
      /\ \A k \in 1..Len(NewEntries(log, log')) :
           LET n == NewEntries(log, log')[k] IN
             /\ n.ev = "periodic" =>
                  (store'.State = store.State /\ n.st = store.State)
             /\ n.ev = "end" =>
                  (store'.ActualDuration = store.ActualDuration
                     /\ n.ad = store.ActualDuration) ]_vars
C13_Witness ==
  /\ pc = "returned"
  /\ Has(log, "periodic")
  /\ Len(log) > 0 /\ log[Len(log)].ev = "update"
  /\ store.State = StateDone
  /\ store.PlannedDuration = 2 * Second
  /\ store.Category = CategoryPomodoro

\* C15: once the cancellation case has been serviced, tick() has returned and
\* the cancellation is the last thing the invocation did.
C15_CancelReturns ==
  Has(log, "cancel") =>
    /\ pc = "returned"
    /\ log[Len(log)].ev = "cancel"

\* C16: servicing the cancellation leaves the stored record as it is (the
\* Cancelled state exists on the branch's copy only, no Update is issued), and
\* the stored state is never Cancelled.
C16_CancelNotPersisted ==
  /\ [](store.State # StateCancelled)
  /\ [][ Has(NewEntries(log, log'), "cancel") =>
           /\ store' = store
           /\ ~Has(NewEntries(log, log'), "update")
           /\ \A k \in 1..Len(NewEntries(log, log')) :
                NewEntries(log, log')[k].ev = "cancel" =>
                  NewEntries(log, log')[k].st = StateCancelled ]_vars
C16_Witness ==
  /\ Has(log, "cancel")
  /\ log[Len(log)].ev = "cancel"
  /\ log[Len(log)].st = StateCancelled
  /\ store.State = StateRunning
  /\ pc = "loop"

\* C17: in one invocation start is called exactly once, right after the
\* initial ByID succeeded and before every other callback, and not at all when
\* the initial ByID failed; end is called at most once and no periodic callback
\* follows it.
C17_CallbackOrder ==
  LET cb == Callbacks(log) IN
    /\ (Len(log) > 0 /\ log[1].ev = "byidfail") => cb = <<>>
    /\ (Len(log) > 0 /\ log[1].ev # "byidfail") =>
         /\ log[1].ev = "byid"
         /\ Len(log) >= 2 /\ log[2].ev = "start"
         /\ cb[1].ev = "start"
         /\ Cardinality(Positions(log, "start")) = 1
    /\ Cardinality(Positions(log, "end")) <= 1
    /\ \A k \in 1..Len(cb) : cb[k].ev = "end" => k = Len(cb)
C17_Witness ==
  LET cb == Callbacks(log) IN
    /\ pc = "returned"
    /\ Len(cb) = 4
    /\ cb[1].ev = "start" /\ cb[2].ev = "periodic"
    /\ cb[3].ev = "periodic" /\ cb[4].ev = "end"

\* C18: the end callback gets State = Done and precedes the Update of the
\* expiry branch; when that Update fails, tick() has returned its error with
\* end already called, and the stored state is still the one ByID returned
\* (not Done unless it was Done before).
C18_EndBeforePersist ==
  /\ [](\A k \in 1..Len(log) :
          log[k].ev = "end" =>
            /\ log[k].st = StateDone
            /\ k > 1 /\ log[k - 1].ev = "byid"
            /\ k + 1 = Len(log)
            /\ log[k + 1].ev \in {"update", "updatefail"}
            /\ log[k + 1].ev = "updatefail" =>
                 (pc = "returned" /\ ret = log[k + 1].err))
  /\ [][ LET n == NewEntries(log, log') IN
           (Has(n, "end") /\ Has(n, "updatefail")) =>
             /\ store' = store
             /\ store.State # StateDone => store'.State # StateDone ]_vars
C18_Witness ==
  /\ pc = "returned"
  /\ Len(log) > 2
  /\ log[Len(log)].ev = "updatefail"
  /\ log[Len(log) - 1].ev = "end"
  /\ log[Len(log) - 1].st = StateDone
  /\ ret = ErrStorage
  /\ store.State = StateRunning

\* C19: whenever tick() has returned, by whatever path, its ticker is stopped.
C19_TickerStopped == pc = "returned" => ~tickerActive
C19_Witness ==
  /\ pc = "returned"
  /\ ~tickerActive
  /\ ret = NoErr
  /\ store.State = StatePaused
  /\ elapsed >= 2

\* C14: each duration of the configuration NewConfig() returns is the
\* corresponding argument when that argument is positive and its default (25,
\* 5 and 15 minutes) otherwise, whatever the other two arguments are.
C14_ConfigDefaults ==
  config.called =>
    /\ config.out.PomodoroDuration =
         (IF config.pomodoro >= Second THEN config.pomodoro ELSE 1500 * Second)
    /\ config.out.ShortBreakDuration =
         (IF config.shortBreak >= Second THEN config.shortBreak ELSE 300 * Second)
    /\ config.out.LongBreakDuration =
         (IF config.longBreak >= Second THEN config.longBreak ELSE 900 * Second)
C14_Witness ==
  /\ config.called
  /\ config.pomodoro = 0 /\ config.shortBreak = 2 * Minute
  /\ config.longBreak < 0
  /\ config.out.PomodoroDuration = DefaultPomodoro
  /\ config.out.ShortBreakDuration = 2 * Minute
  /\ config.out.LongBreakDuration = DefaultLongBreak

\* C20: with the timers firing and the expire case not starved, every
\* invocation that reached the select eventually returns, also when the
\* context has been cancelled.
C20_Returns == (pc = "loop") ~> (pc = "returned")
C20_Witness ==
  /\ pc = "returned"
  /\ cancelled /\ spins >= 1
  /\ Has(log, "cancel")
  /\ log[Len(log)].ev = "update" /\ log[Len(log)].st = StateDone

====
